---- MODULE Spec2Model ----
(***************************************************************************)
(* Synthora: conversation orchestrator, app generator and ML platform.     *)
(*                                                                         *)
(* JSON objects are functions whose DOMAIN is the set of keys present, so  *)
(* the object spread {...a, ...b} is Spread(a, b) and a missing key is a   *)
(* key outside the DOMAIN.  An undefined object-valued field is the value  *)
(* Undefined; an undefined string-valued field is the empty string (both   *)
(* are falsy in the source's tests).  Timestamps (new Date()) are left out *)
(* of the context: no operation reads them back.                           *)
(***************************************************************************)
EXTENDS FiniteSets, Integers, Sequences, TLC

(***************************************************************************)
(* Bounds of the model.                                                    *)
(***************************************************************************)
MaxSessions == 2
MaxCalls == 2
MaxTurns == 3
MaxGenTurns == 1
MaxGenerations == 2
MaxCatalogueCalls == 2
MaxTrainings == 2
MaxDeployments == 2

(***************************************************************************)
(* Values.                                                                 *)
(***************************************************************************)
Undefined == [undefined |-> TRUE]
EmptyObject == [k \in {} |-> TRUE]
UnknownSession == "no-such-session"

\* nanoid(): the n-th identifier drawn; every draw is fresh.
nanoid(n) == "nanoid_" \o ToString(n)

\* The request body of the n-th POST /api/conversation/message.
UserMessage(c) == "message_" \o ToString(c)

\* {...a, ...b}: every key of b overrides the key of a.
Spread(a, b) ==
  [k \in DOMAIN a \cup DOMAIN b |-> IF k \in DOMAIN b THEN b[k] ELSE a[k]]

IntentTypes ==
  {"create_app", "modify_app", "add_feature", "create_ml_usecase",
   "deploy_model", "view_insights", "configure_integration", "question",
   "other"}

NoActiveAppText == "I don't have an active app to modify."
NeedAppContextText == "I need an app context to add ML capabilities."
ApologyText == "I apologize, but I encountered an error processing your request."
SessionNotFound == "Session not found"
LLMFailure == "LLM request failed"
JSONSyntaxError == "Unexpected token in JSON"

(***************************************************************************)
(* What the language model may answer.  A completion is either a failure   *)
(* of the request, or text; text that must be JSON is either unparsable or *)
(* one of the objects below.                                               *)
(***************************************************************************)
Client ==
  [id |-> "model_client", name |-> "Client",
   fields |-> <<"name", "email">>, relations |-> <<>>]
ClientWithStatus ==
  [id |-> "model_client", name |-> "Client",
   fields |-> <<"name", "email", "Status">>, relations |-> <<>>]
Deal ==
  [id |-> "model_deal", name |-> "Deal",
   fields |-> <<"amount">>, relations |-> <<"Client">>]
ClientsScreen ==
  [id |-> "screen_clients", name |-> "Clients", path |-> "/clients", type |-> "list"]
DealsScreen ==
  [id |-> "screen_deals", name |-> "Deals", path |-> "/deals", type |-> "list"]
ClientFormScreen ==
  [id |-> "screen_client_form", name |-> "Client Form", path |-> "/clients", type |-> "form"]
NotifyWorkflow == [id |-> "workflow_notify", name |-> "Notify"]
Account ==
  [id |-> "model_account", name |-> "Account",
   fields |-> <<"owner">>, relations |-> <<>>]
AccountLowerCase ==
  [id |-> "model_account_legacy", name |-> "account",
   fields |-> <<"owner", "balance">>, relations |-> <<>>]
AccountsScreen == [name |-> "Accounts", path |-> "/accounts", type |-> "list"]

RawCRM ==
  [id |-> "crm", name |-> "CRM", description |-> "A CRM",
   dataModels |-> <<Client, Deal>>, screens |-> <<ClientsScreen, DealsScreen>>,
   workflows |-> <<>>, permissions |-> <<>>, integrations |-> <<>>]
RawClientDelta == [dataModels |-> <<ClientWithStatus>>]
RawScreenDelta == [screens |-> <<ClientsScreen, DealsScreen, ClientFormScreen>>]
RawWorkflowDelta == [workflows |-> <<NotifyWorkflow>>]
\* Two data models whose names differ in case only, and a screen without id.
RawLedger ==
  [id |-> "ledger", name |-> "Ledger", description |-> "A ledger",
   dataModels |-> <<Account, AccountLowerCase>>, screens |-> <<AccountsScreen>>,
   workflows |-> <<>>, permissions |-> <<>>, integrations |-> <<>>]

RawSpecs ==
  {EmptyObject, RawCRM, RawClientDelta, RawScreenDelta, RawWorkflowDelta}

RawChurn == [id |-> "usecase_churn", name |-> "Churn", category |-> "churn_prediction"]
RawMLUseCases == {EmptyObject, RawChurn}

LLMTexts == {"assistant text", ""}
HandlerTexts == {"assistant text"}

(***************************************************************************)
(* State.                                                                  *)
(*   contexts  the keys of ConversationOrchestrator.contexts               *)
(*   heap      the ConversationContext objects, by session id; an object   *)
(*             outlives its removal from the map while a call holds it     *)
(*   calls     the invocations of processMessage, each with the point at   *)
(*             which it is suspended and its local variables               *)
(*   nanoids   the number of identifiers nanoid() has produced             *)
(*   files     the files under AppGenerator.outputDir: path and content    *)
(*   generations  the requests POST /api/apps/generate, each with the      *)
(*             specification it was handed and the write it is suspended at *)
(***************************************************************************)
VARIABLES contexts, heap, calls, nanoids, files, generations,
          useCases, registry, modelFiles, trainings, deployments

\* The state of the MLPlatform object and the calls of its methods.
mlVars == <<useCases, registry, modelFiles, trainings, deployments>>

vars == <<contexts, heap, calls, nanoids, files, generations, mlVars>>

CallIds == DOMAIN calls

\* The locals of a processMessage invocation that has just been entered.
NewCall(sessionId, userMessage) ==
  [pc |-> "detectIntent", sessionId |-> sessionId, userMessage |-> userMessage,
   intent |-> "", response |-> "", artifacts |-> <<>>, error |-> "",
   updatedSpec |-> Undefined]

\* startSession: the context object of a new session.
NewContext(sessionId, userId) ==
  [sessionId |-> sessionId, userId |-> userId, history |-> <<>>,
   currentSpec |-> Undefined, appId |-> "", currentMLUseCase |-> Undefined]

UserEntry(text) == [role |-> "user", content |-> text]

\* An assistant entry that leaves the artifacts out.
AssistantEntryBare(text, artifacts) ==
  [role |-> "assistant", content |-> text, artifacts |-> <<>>]

AssistantEntry(text, artifacts) ==
  [role |-> "assistant", content |-> text, artifacts |-> artifacts]

Init ==
  /\ contexts = {}
  /\ heap = [s \in {} |-> Undefined]
  /\ calls = <<>>
  /\ nanoids = 0
  /\ files = {}
  /\ generations = <<>>
  /\ useCases = <<>>
  /\ registry = [u \in {} |-> <<>>]
  /\ modelFiles = {}
  /\ trainings = <<>>
  /\ deployments = <<>>

(***************************************************************************)
(* extractAppSpec: {...spec, id: spec.id || nanoid(), version: '0.1.0'}.   *)
(***************************************************************************)
HasId(raw) == "id" \in DOMAIN raw /\ raw.id # ""

NormalizeSpec(raw, fresh) ==
  Spread(raw, [id |-> IF HasId(raw) THEN raw.id ELSE fresh, version |-> "0.1.0"])

\* extractMLUseCase: {...mlConfig, id: mlConfig.id || nanoid(), appId, status}.
NormalizeMLUseCase(raw, fresh, appId) ==
  Spread(raw, [id |-> IF HasId(raw) THEN raw.id ELSE fresh,
               appId |-> appId, status |-> "configuring"])

\* A merge that concatenates a collection present on both sides.
MergeSpecAppending(currentSpec, updatedSpec) ==
  [k \in DOMAIN currentSpec \cup DOMAIN updatedSpec |->
     IF k \in DOMAIN updatedSpec
       THEN IF k \in DOMAIN currentSpec /\ k \notin {"id", "name", "description", "version"}
              THEN currentSpec[k] \o updatedSpec[k]
              ELSE updatedSpec[k]
       ELSE currentSpec[k]]

\* handleModifyApp: {...context.currentSpec, ...updatedSpec}.
MergeSpec(currentSpec, updatedSpec) == Spread(currentSpec, updatedSpec)

(***************************************************************************)
(* Local steps of a processMessage invocation.                             *)
(***************************************************************************)
\* A push onto one history array shared by every context.
PushHistoryShared(h, sessionId, entry) ==
  [s \in DOMAIN h |-> [h[s] EXCEPT !.history = Append(@, entry)]]

\* context.history.push(entry) on the context object the call holds.
PushHistory(h, sessionId, entry) ==
  [h EXCEPT ![sessionId].history = Append(@, entry)]

\* The invocation rejects: nothing more of it runs.
Throw(c, message) ==
  calls' = [calls EXCEPT ![c].pc = "threw", ![c].error = message]

\* A turn that rejects where it should answer.
RespondRaising(c, h, response, artifacts) ==
  /\ heap' = h
  /\ calls' = [calls EXCEPT ![c].pc = "threw", ![c].error = "SyntaxError"]

\* Lines 1110-1118: push the assistant entry, then return.
Respond(c, h, response, artifacts) ==
  /\ heap' = PushHistory(h, calls[c].sessionId,
                         AssistantEntry(response, artifacts))
  /\ calls' = [calls EXCEPT ![c].pc = "returned", ![c].response = response,
                            ![c].artifacts = artifacts]

\* A guard that never fires.
NoCurrentSpecUnchecked(context) == FALSE

\* handleModifyApp, line 1293: if (!context.currentSpec).
NoCurrentSpec(context) == context.currentSpec = Undefined

\* handleCreateMLUseCase, line 1358: if (!context.appId).
NoAppId(context) == context.appId = ""

(***************************************************************************)
(* startSession(userId).                                                   *)
(***************************************************************************)
StartSession(userId) ==
  /\ Cardinality(DOMAIN heap) < MaxSessions
  /\ LET sessionId == nanoid(nanoids + 1) IN
       /\ contexts' = contexts \cup {sessionId}
       /\ heap' = [s \in DOMAIN heap \cup {sessionId} |->
                     IF s = sessionId THEN NewContext(sessionId, userId)
                     ELSE heap[s]]
  /\ nanoids' = nanoids + 1
  /\ UNCHANGED <<calls, files, generations, mlVars>>

\* A disposal that empties the whole session map.
ClearContextAll(sessionId) ==
  /\ sessionId \in contexts
  /\ contexts' = {}
  /\ UNCHANGED <<heap, calls, nanoids, files, generations, mlVars>>

(***************************************************************************)
(* clearContext(sessionId).                                                *)
(***************************************************************************)
ClearContext(sessionId) ==
  /\ sessionId \in contexts
  /\ contexts' = contexts \ {sessionId}
  /\ UNCHANGED <<heap, calls, nanoids, files, generations, mlVars>>

(***************************************************************************)
(* processMessage, lines 1062-1075: look the context up, push the user     *)
(* message and suspend at the classifier's completion request.             *)
(***************************************************************************)
ProcessMessage(sessionId) ==
  /\ LET c == Len(calls) + 1
         call == NewCall(sessionId, UserMessage(c))
     IN
     IF sessionId \notin contexts
       THEN /\ calls' = Append(calls, [call EXCEPT !.pc = "threw",
                                                   !.error = SessionNotFound])
            /\ UNCHANGED heap
       ELSE /\ heap' = PushHistory(heap, sessionId, UserEntry(UserMessage(c)))
            /\ calls' = Append(calls, call)
  /\ UNCHANGED <<contexts, nanoids, files, generations, mlVars>>

(***************************************************************************)
(* detectIntent resumes (lines 1151-1162) and processMessage routes the    *)
(* intent (lines 1081-1108) up to the handler's first suspension.          *)
(*   outcome = "failure"    the completion request rejected                *)
(*   outcome = "malformed"  JSON.parse throws on the content               *)
(*   outcome = "no type"    a JSON object without a type                   *)
(*   otherwise              the type of the parsed intent                  *)
(***************************************************************************)
IntentOutcomes == IntentTypes \cup {"failure", "malformed", "no type"}

DetectIntent(c, outcome) ==
  /\ calls[c].pc = "detectIntent"
  /\ LET context == heap[calls[c].sessionId] IN
     CASE outcome = "failure" ->
            /\ Throw(c, LLMFailure)
            /\ UNCHANGED heap
       [] outcome = "malformed" ->
            /\ Throw(c, JSONSyntaxError)
            /\ UNCHANGED heap
       [] outcome = "create_app" ->
            /\ calls' = [calls EXCEPT ![c].pc = "handleCreateApp",
                                      ![c].intent = outcome]
            /\ UNCHANGED heap
       [] outcome \in {"modify_app", "add_feature"} ->
            IF NoCurrentSpec(context)
              THEN /\ heap' = PushHistory(heap, calls[c].sessionId,
                                          AssistantEntry(NoActiveAppText, <<>>))
                   /\ calls' = [calls EXCEPT ![c].pc = "returned",
                                             ![c].intent = outcome,
                                             ![c].response = NoActiveAppText]
              ELSE /\ calls' = [calls EXCEPT ![c].pc = "handleModifyApp",
                                             ![c].intent = outcome]
                   /\ UNCHANGED heap
       [] outcome = "create_ml_usecase" ->
            IF NoAppId(context)
              THEN /\ heap' = PushHistory(heap, calls[c].sessionId,
                                          AssistantEntry(NeedAppContextText, <<>>))
                   /\ calls' = [calls EXCEPT ![c].pc = "returned",
                                             ![c].intent = outcome,
                                             ![c].response = NeedAppContextText]
              ELSE /\ calls' = [calls EXCEPT ![c].pc = "handleCreateMLUseCase",
                                             ![c].intent = outcome]
                   /\ UNCHANGED heap
       [] OTHER ->
            /\ calls' = [calls EXCEPT ![c].pc = "handleGeneralQuery",
                                      ![c].intent = outcome]
            /\ UNCHANGED heap
  /\ UNCHANGED <<contexts, nanoids, files, generations, mlVars>>

(***************************************************************************)
(* The handler's own completion request resumes (lines 1188-1200,          *)
(* 1309-1321, 1383-1398): keep the text and issue the extraction request.  *)
(***************************************************************************)
HandlerCompletion(c, failed, text) ==
  /\ calls[c].pc \in {"handleCreateApp", "handleModifyApp", "handleCreateMLUseCase"}
  /\ IF failed
       THEN Throw(c, LLMFailure)
       ELSE calls' = [calls EXCEPT
                        ![c].pc = CASE calls[c].pc = "handleCreateApp" -> "extractAppSpec"
                                    [] calls[c].pc = "handleModifyApp" -> "extractAppSpec"
                                    [] OTHER -> "extractMLUseCase",
                        ![c].response = text]
  /\ UNCHANGED <<contexts, heap, nanoids, files, generations, mlVars>>

\* A general answer that drops the session's specification.
GeneralQueryForgetting(c, failed, text) ==
  /\ calls[c].pc = "handleGeneralQuery"
  /\ IF failed
       THEN Throw(c, LLMFailure) /\ UNCHANGED heap
       ELSE Respond(c, [heap EXCEPT ![calls[c].sessionId].currentSpec = Undefined],
                    IF text = "" THEN ApologyText ELSE text, <<>>)
  /\ UNCHANGED <<contexts, nanoids, files, generations, mlVars>>

(***************************************************************************)
(* handleGeneralQuery resumes (lines 1479-1488) and processMessage ends.   *)
(***************************************************************************)
GeneralQuery(c, failed, text) ==
  /\ calls[c].pc = "handleGeneralQuery"
  /\ IF failed
       THEN Throw(c, LLMFailure) /\ UNCHANGED heap
       ELSE Respond(c, heap, IF text = "" THEN ApologyText ELSE text, <<>>)
  /\ UNCHANGED <<contexts, nanoids, files, generations, mlVars>>

(***************************************************************************)
(* extractAppSpec resumes (lines 1260-1282) and its caller finishes:       *)
(* handleCreateApp lines 1202-1212 or handleModifyApp lines 1322-1335,     *)
(* then processMessage lines 1110-1118.                                    *)
(*   outcome = "failure"    the completion request rejected (it is issued  *)
(*                          outside the try block)                         *)
(*   outcome = "malformed"  JSON.parse throws inside the try: null         *)
(*   outcome = "parsed"     JSON.parse returned the object raw             *)
(***************************************************************************)
ExtractOutcomes == {"failure", "malformed", "parsed"}

SpecArtifact(spec) == <<[type |-> "spec", content |-> spec]>>
ModelArtifact(useCase) == <<[type |-> "model", content |-> useCase]>>

ExtractAppSpec(c, outcome, raw) ==
  /\ calls[c].pc = "extractAppSpec"
  /\ LET sessionId == calls[c].sessionId
         context == heap[sessionId]
         spec == NormalizeSpec(raw, nanoid(nanoids + 1))
         merged == MergeSpec(context.currentSpec, spec)
     IN
     CASE outcome = "failure" ->
            /\ Throw(c, LLMFailure)
            /\ UNCHANGED <<heap, nanoids>>
       [] outcome = "malformed" ->
            /\ Respond(c, heap, calls[c].response, <<>>)
            /\ UNCHANGED nanoids
       [] OTHER ->
            /\ nanoids' = IF HasId(raw) THEN nanoids ELSE nanoids + 1
            /\ IF calls[c].intent = "create_app"
                 THEN /\ heap' = PushHistory(
                                   [heap EXCEPT ![sessionId].currentSpec = spec,
                                                ![sessionId].appId = spec.id],
                                   sessionId,
                                   AssistantEntry(calls[c].response, SpecArtifact(spec)))
                      /\ calls' = [calls EXCEPT ![c].pc = "returned",
                                                ![c].artifacts = SpecArtifact(spec),
                                                ![c].updatedSpec = spec]
                 ELSE /\ heap' = PushHistory(
                                   [heap EXCEPT ![sessionId].currentSpec = merged],
                                   sessionId,
                                   AssistantEntry(calls[c].response, SpecArtifact(merged)))
                      /\ calls' = [calls EXCEPT ![c].pc = "returned",
                                                ![c].artifacts = SpecArtifact(merged),
                                                ![c].updatedSpec = spec]
  /\ UNCHANGED <<contexts, files, generations, mlVars>>

(***************************************************************************)
(* extractMLUseCase resumes (lines 1436-1459; request and parse are both   *)
(* inside the try) and handleCreateMLUseCase finishes (lines 1399-1408).   *)
(***************************************************************************)
ExtractMLUseCase(c, outcome, raw) ==
  /\ calls[c].pc = "extractMLUseCase"
  /\ LET sessionId == calls[c].sessionId
         context == heap[sessionId]
         mlUseCase == NormalizeMLUseCase(raw, nanoid(nanoids + 1), context.appId)
     IN
     IF outcome \in {"failure", "malformed"}
       THEN /\ Respond(c, heap, calls[c].response, <<>>)
            /\ UNCHANGED nanoids
       ELSE /\ nanoids' = IF HasId(raw) THEN nanoids ELSE nanoids + 1
            /\ heap' = PushHistory(
                         [heap EXCEPT ![sessionId].currentMLUseCase = mlUseCase],
                         sessionId,
                         AssistantEntry(calls[c].response, ModelArtifact(mlUseCase)))
            /\ calls' = [calls EXCEPT ![c].pc = "returned",
                                      ![c].artifacts = ModelArtifact(mlUseCase)]
  /\ UNCHANGED <<contexts, files, generations, mlVars>>

(***************************************************************************)
(* AppGenerator.  A path is the tuple of its segments below outputDir; the *)
(* content of a file is the template it was rendered from together with    *)
(* the values interpolated into it.  A step throws when the rendering      *)
(* dereferences a key the specification does not have.                     *)
(***************************************************************************)
Has(object, key) == key \in DOMAIN object

\* `${value}` in a template literal.
Interpolate(object, key) == IF Has(object, key) THEN object[key] ELSE "undefined"

\* String.prototype.toLowerCase on the names that occur.
toLowerCase(name) ==
  CASE name = "Client" -> "client"
    [] name = "Deal" -> "deal"
    [] name = "CRM" -> "crm"
    [] name = "Account" -> "account"
    [] name = "Ledger" -> "ledger"
    [] OTHER -> name

\* name.replace(/\s+/g, '') on the names that occur.
removeWhitespace(name) ==
  CASE name = "Client Form" -> "ClientForm"
    [] OTHER -> name

DataModelsOf(spec) == IF Has(spec, "dataModels") THEN spec.dataModels ELSE <<>>
ScreensOf(spec) == IF Has(spec, "screens") THEN spec.screens ELSE <<>>

ModelNames(spec) ==
  [i \in 1..Len(DataModelsOf(spec)) |-> toLowerCase(DataModelsOf(spec)[i].name)]

Step(path, template, data, throws) ==
  [path |-> path, content |-> [template |-> template, data |-> data],
   throws |-> throws]

\* generateBackend, lines 70-88.
BackendSteps(spec, appDir) ==
  LET models == DataModelsOf(spec)
      noModels == ~Has(spec, "dataModels")
  IN
  << Step(<<appDir, "backend", "requirements.txt">>, "requirements.txt", <<>>, FALSE),
     Step(<<appDir, "backend", "app", "main.py">>, "main.py",
          <<ModelNames(spec), Interpolate(spec, "name"),
            Interpolate(spec, "description"), Interpolate(spec, "version")>>,
          noModels) >>
  \o [i \in 1..(2 * Len(models)) |->
        LET model == models[(i + 1) \div 2] IN
        IF i % 2 = 1
          THEN Step(<<appDir, "backend", "app", "models",
                      toLowerCase(model.name) \o ".py">>,
                    "sqlalchemy model", model, ~Has(model, "fields"))
          ELSE Step(<<appDir, "backend", "app", "models",
                      toLowerCase(model.name) \o "_schemas.py">>,
                    "pydantic schemas", model, ~Has(model, "fields"))]
  \o [i \in 1..Len(models) |->
        Step(<<appDir, "backend", "app", "routes",
               toLowerCase(models[i].name) \o "_routes.py">>,
             "routes", models[i].name, FALSE)]
  \o << Step(<<appDir, "backend", "app", "events", "tracker.py">>, "tracker.py", <<>>, FALSE),
        Step(<<appDir, "backend", "app", "ml", "service.py">>, "service.py", <<>>, FALSE) >>

\* generateFrontend, lines 511-529.
FrontendSteps(spec, appDir) ==
  LET screens == ScreensOf(spec)
      noScreens == ~Has(spec, "screens")
  IN
  << Step(<<appDir, "frontend", "package.json">>, "package.json",
          <<Interpolate(spec, "name"), Interpolate(spec, "version")>>,
          ~Has(spec, "name")),
     Step(<<appDir, "frontend", "src", "App.tsx">>, "App.tsx",
          <<Interpolate(spec, "name"),
            [i \in 1..Len(screens) |->
               <<removeWhitespace(screens[i].name), screens[i].path>>]>>,
          noScreens) >>
  \o [i \in 1..Len(screens) |->
        Step(<<appDir, "frontend", "src", "pages",
               removeWhitespace(screens[i].name) \o ".tsx">>,
             "page", <<screens[i].name, screens[i].type>>, FALSE)]
  \o << Step(<<appDir, "frontend", "src", "services", "api.ts">>, "api.ts",
             ModelNames(spec), ~Has(spec, "dataModels")),
        Step(<<appDir, "frontend", "src", "ml", "hooks.tsx">>, "hooks.tsx", <<>>, FALSE),
        Step(<<appDir, "frontend", "index.html">>, "index.html",
             Interpolate(spec, "name"), FALSE),
        Step(<<appDir, "frontend", "src", "main.tsx">>, "main.tsx", <<>>, FALSE),
        Step(<<appDir, "frontend", "src", "index.css">>, "index.css", <<>>, FALSE),
        Step(<<appDir, "frontend", "vite.config.ts">>, "vite.config.ts", <<>>, FALSE),
        Step(<<appDir, "frontend", "tailwind.config.js">>, "tailwind.config.js", <<>>, FALSE) >>

\* A plan whose deployment descriptor carries the time of its rendering too.
PlanStampingCompose(spec, now) ==
  LET appDir == spec.id IN
  BackendSteps(spec, appDir)
  \o FrontendSteps(spec, appDir)
  \o << Step(<<appDir, "docker-compose.yml">>, "docker-compose.yml", <<spec.id, now>>, FALSE),
        Step(<<appDir, "README.md">>, "README.md",
             <<Interpolate(spec, "name"), Interpolate(spec, "description"),
               Interpolate(spec, "version"), now>>, FALSE) >>

\* generateApp, lines 19-38: the files in the order they are written.  The
\* README carries the time of its rendering.
Plan(spec, now) ==
  LET appDir == spec.id IN
  BackendSteps(spec, appDir)
  \o FrontendSteps(spec, appDir)
  \o << Step(<<appDir, "docker-compose.yml">>, "docker-compose.yml", spec.id, FALSE),
        Step(<<appDir, "README.md">>, "README.md",
             <<Interpolate(spec, "name"), Interpolate(spec, "description"),
               Interpolate(spec, "version"), now>>, FALSE) >>

\* fs.writeFile(path, content): the file is created or replaced.
WriteFile(fs, path, content) ==
  {f \in fs : f.path # path} \cup {[path |-> path, content |-> content]}

GenerationIds == DOMAIN generations

NoSpecificationFound == "No app specification found in session"
TypeErrorMessage == "Cannot read properties of undefined"
IOErrorMessage == "EACCES: permission denied"

\* A request that takes the specification out of the session.
GenerateRequestConsuming(sessionId) ==
  /\ LET found == sessionId \in contexts /\ heap[sessionId].currentSpec # Undefined IN
     /\ generations' = Append(generations,
          [sessionId |-> sessionId,
           spec |-> IF found THEN heap[sessionId].currentSpec ELSE Undefined,
           step |-> 0,
           status |-> IF found THEN "running" ELSE "rejected",
           error |-> IF found THEN "" ELSE "No app specification found in session",
           failedPath |-> <<>>])
     /\ heap' = IF found THEN [heap EXCEPT ![sessionId].currentSpec = Undefined]
                         ELSE heap
  /\ UNCHANGED <<contexts, calls, nanoids, files, mlVars>>

(***************************************************************************)
(* POST /api/apps/generate, lines 1604-1613: answer 400 without a current  *)
(* specification, otherwise call generateApp, which suspends at mkdir.     *)
(***************************************************************************)
GenerateRequest(sessionId) ==
  /\ LET found == sessionId \in contexts /\ ~NoCurrentSpec(heap[sessionId]) IN
     generations' = Append(generations,
       [sessionId |-> sessionId,
        spec |-> IF found THEN heap[sessionId].currentSpec ELSE Undefined,
        step |-> 0,
        status |-> IF found THEN "running" ELSE "rejected",
        error |-> IF found THEN "" ELSE NoSpecificationFound,
        failedPath |-> <<>>])
  /\ UNCHANGED <<contexts, heap, calls, nanoids, files, mlVars>>

(***************************************************************************)
(* generateApp resumes from an await: createDirectoryStructure (step 0,    *)
(* lines 43-65) or one fs.writeFile of the plan.  A rejection ends the     *)
(* request with status 500 (lines 1620-1622); nothing is removed.          *)
(***************************************************************************)
GenerateStep(g, ioFails) ==
  /\ generations[g].status = "running"
  /\ LET gen == generations[g]
         plan == Plan(gen.spec, g)
         next == gen.step + 1
     IN
     IF gen.step = 0
       THEN /\ generations' =
                 IF ioFails
                   THEN [generations EXCEPT ![g].status = "failed",
                                            ![g].error = IOErrorMessage,
                                            ![g].failedPath = <<gen.spec.id>>]
                   ELSE [generations EXCEPT ![g].step = 1]
            /\ UNCHANGED files
       ELSE IF plan[gen.step].throws
         THEN /\ generations' = [generations EXCEPT ![g].status = "failed",
                                                    ![g].error = TypeErrorMessage]
              /\ UNCHANGED files
         ELSE IF ioFails
           THEN /\ generations' = [generations EXCEPT ![g].status = "failed",
                                                      ![g].error = IOErrorMessage,
                                                      ![g].failedPath = plan[gen.step].path]
                /\ UNCHANGED files
           ELSE /\ files' = WriteFile(files, plan[gen.step].path, plan[gen.step].content)
                /\ generations' =
                     IF gen.step = Len(plan)
                       THEN [generations EXCEPT ![g].status = "done", ![g].step = next]
                       ELSE [generations EXCEPT ![g].step = next]
  /\ UNCHANGED <<contexts, heap, calls, nanoids, mlVars>>

(***************************************************************************)
(* The orchestrator under any interleaving of requests.                    *)
(***************************************************************************)
\* The answers of the language model tried under interleaving.
(***************************************************************************)
(* MLPlatform.  registry maps a use case id to the array of its models;    *)
(* modelFiles are the files below modelsDir.  Fractions are kept as their  *)
(* decimal text.                                                           *)
(***************************************************************************)
MLCategory ==
  {"churn_prediction", "lead_scoring", "conversion_optimization",
   "anomaly_detection", "recommendation", "ltv_prediction", "risk_scoring",
   "custom"}

Monitoring(latencyThreshold, errorRateThreshold, alertChannels) ==
  [latencyThreshold |-> latencyThreshold, errorRateThreshold |-> errorRateThreshold,
   driftDetection |-> TRUE, alertChannels |-> alertChannels]

TrainingConfig(dataSource, validationStrategy, evaluationMetrics) ==
  [dataSource |-> dataSource, trainTestSplit |-> "0.8",
   validationStrategy |-> validationStrategy,
   evaluationMetrics |-> evaluationMetrics]

DeploymentConfig(endpoint, monitoring) ==
  [endpoint |-> endpoint, autoscaling |-> TRUE, monitoring |-> monitoring]

MLConfig(targetVariable, features, modelType, trainingConfig, deploymentConfig) ==
  [targetVariable |-> targetVariable, features |-> features,
   modelType |-> modelType, trainingConfig |-> trainingConfig,
   deploymentConfig |-> deploymentConfig]

\* getDefaultConfig, lines 1847-1979: the own keys of the templates literal.
templates ==
  [churn_prediction |->
     MLConfig("churned",
              <<"days_since_last_login", "total_sessions", "avg_session_duration",
                "feature_usage_count", "support_tickets_count">>,
              "gradient_boosting",
              TrainingConfig("user_events", "holdout", <<"accuracy", "precision", "recall", "auc">>),
              DeploymentConfig("/ml/predict/churn", Monitoring(200, "0.01", <<"email">>))),
   lead_scoring |->
     MLConfig("converted",
              <<"page_views", "time_on_site", "email_opens", "form_submissions",
                "company_size", "industry">>,
              "random_forest",
              TrainingConfig("lead_events", "cv", <<"accuracy", "precision", "recall", "f1">>),
              DeploymentConfig("/ml/predict/lead-score", Monitoring(150, "0.01", <<"email">>))),
   conversion_optimization |->
     MLConfig("converted",
              <<"funnel_step", "time_in_step", "previous_steps", "device_type",
                "traffic_source">>,
              "logistic_regression",
              TrainingConfig("conversion_events", "timeseries", <<"accuracy", "auc">>),
              DeploymentConfig("/ml/predict/conversion", Monitoring(100, "0.01", <<"email">>))),
   anomaly_detection |->
     MLConfig("is_anomaly",
              <<"request_rate", "error_rate", "response_time", "unique_users",
                "hour_of_day">>,
              "automl",
              TrainingConfig("system_metrics", "timeseries", <<"precision", "recall", "f1">>),
              DeploymentConfig("/ml/predict/anomaly", Monitoring(50, "0.005", <<"slack", "email">>))),
   recommendation |->
     MLConfig("interaction",
              <<"user_history", "item_features", "collaborative_features",
                "contextual_features">>,
              "neural_network",
              TrainingConfig("interaction_events", "holdout", <<"accuracy", "precision@k">>),
              DeploymentConfig("/ml/predict/recommendation", Monitoring(300, "0.01", <<"email">>)))]

\* Lines 1981-2005: the fallback of getDefaultConfig.
GenericConfig ==
  MLConfig("target", <<>>, "automl",
              TrainingConfig("", "holdout", <<"accuracy">>),
              DeploymentConfig("/ml/predict", Monitoring(200, "0.01", <<>>)))

\* The members every object literal inherits from Object.prototype.
ObjectPrototypeKeys ==
  {"constructor", "toString", "valueOf", "hasOwnProperty", "__proto__"}

\* object[key]: an own property, else an inherited member, else undefined.
\* An absent key reads the property named "undefined".
Lookup(object, key) ==
  IF key \in DOMAIN object THEN object[key]
  ELSE IF key \in ObjectPrototypeKeys THEN [inherited |-> key]
  ELSE Undefined

\* getDefaultConfig, line 1981: templates[category] || { generic }.
getDefaultConfig(category) ==
  IF Lookup(templates, category) # Undefined
    THEN Lookup(templates, category)
    ELSE GenericConfig

\* object.key || fallback for a key holding text.
OrElse(object, key, fallback) ==
  IF key \in DOMAIN object /\ object[key] # "" THEN object[key] ELSE fallback

\* createUseCase, lines 1828-1840.
createUseCase(useCase, fresh) ==
  [id |-> OrElse(useCase, "id", fresh),
   name |-> OrElse(useCase, "name", "Untitled Use Case"),
   description |-> OrElse(useCase, "description", ""),
   category |-> OrElse(useCase, "category", "custom"),
   appId |-> OrElse(useCase, "appId", ""),
   config |-> IF "config" \in DOMAIN useCase THEN useCase.config
              ELSE getDefaultConfig(OrElse(useCase, "category", "undefined")),
   status |-> "configuring"]

\* A configuration the caller wrote.
SuppliedConfig ==
  MLConfig("cancelled", <<"tenure">>, "random_forest",
              TrainingConfig("subscriptions", "cv", <<"f1">>),
              DeploymentConfig("/ml/predict/cancel", Monitoring(250, "0.02", <<>>)))

\* The bodies of POST /api/ml/use-cases.
PartialUseCases ==
  {[category |-> c] : c \in MLCategory \cup {"sentiment", "constructor"}}
  \cup {EmptyObject,
        [category |-> "churn_prediction", config |-> SuppliedConfig],
        [name |-> "Cancellations", config |-> SuppliedConfig]}

(***************************************************************************)
(* POST /api/ml/use-cases, lines 1626-1633: createUseCase answers the use  *)
(* case it built; the platform keeps nothing of it.                        *)
(***************************************************************************)
CreateUseCase(useCase) ==
  /\ useCases' = Append(useCases,
       [request |-> useCase, result |-> createUseCase(useCase, nanoid(nanoids + 1))])
  /\ nanoids' = IF HasId(useCase) THEN nanoids ELSE nanoids + 1
  /\ UNCHANGED <<contexts, heap, calls, files, generations,
                 registry, modelFiles, trainings, deployments>>

\* registry.get(useCaseId) || [].
getModels(useCaseId) ==
  IF useCaseId \in DOMAIN registry THEN registry[useCaseId] ELSE <<>>

\* getNextVersion, lines 2247-2250.
getNextVersion(useCaseId) == Len(getModels(useCaseId)) + 1

TrainingIds == DOMAIN trainings
DeploymentIds == DOMAIN deployments

UseCaseNotFound == "Use case not found"
ModelNotFound == "Model not found"

\* Lines 2037-2052: the model trainModel registers.
NewModel(training) ==
  [id |-> training.modelId,
   useCaseId |-> training.useCaseId,
   version |-> training.version,
   algorithm |-> training.config.modelType,
   features |-> training.config.features,
   modelPath |-> <<training.useCaseId, "model_v" \o ToString(training.version)>>,
   status |-> "ready",
   deployedAt |-> 0]

(***************************************************************************)
(* trainModel, lines 2013-2021: draw the id, compute the version, render   *)
(* the training script and suspend at mkdir.  The script reads the fields  *)
(* of config, so an absent config throws before anything is written.       *)
(***************************************************************************)
TrainModel(useCaseId, config) ==
  /\ trainings' = Append(trainings,
       [useCaseId |-> useCaseId, config |-> config,
        modelId |-> nanoid(nanoids + 1),
        version |-> getNextVersion(useCaseId),
        pc |-> IF config = Undefined THEN "threw" ELSE "mkdir",
        error |-> IF config = Undefined THEN TypeErrorMessage ELSE ""])
  /\ nanoids' = nanoids + 1
  /\ UNCHANGED <<contexts, heap, calls, files, generations,
                 useCases, registry, modelFiles, deployments>>

(***************************************************************************)
(* trainModel resumes from mkdir (line 2021), from writing train.py        *)
(* (line 2022) and from writing requirements.txt (lines 2026-2029); after  *)
(* the last it registers the model (lines 2037-2059) and returns.          *)
(***************************************************************************)
TrainStep(t, ioFails) ==
  /\ trainings[t].pc \in {"mkdir", "writeScript", "writeRequirements"}
  /\ LET training == trainings[t]
         u == training.useCaseId
     IN
     IF ioFails
       THEN /\ trainings' = [trainings EXCEPT ![t].pc = "threw",
                                              ![t].error = IOErrorMessage]
            /\ UNCHANGED <<registry, modelFiles>>
       ELSE CASE training.pc = "mkdir" ->
                   /\ trainings' = [trainings EXCEPT ![t].pc = "writeScript"]
                   /\ UNCHANGED <<registry, modelFiles>>
              [] training.pc = "writeScript" ->
                   /\ trainings' = [trainings EXCEPT ![t].pc = "writeRequirements"]
                   /\ modelFiles' = WriteFile(modelFiles, <<u, "train.py">>,
                        [template |-> "train.py",
                         data |-> <<training.config.targetVariable,
                                    training.config.features,
                                    training.config.modelType,
                                    training.config.trainingConfig.trainTestSplit,
                                    training.config.trainingConfig.dataSource, u>>])
                   /\ UNCHANGED registry
              [] OTHER ->
                   /\ trainings' = [trainings EXCEPT ![t].pc = "returned"]
                   /\ modelFiles' = WriteFile(modelFiles, <<u, "requirements.txt">>,
                        [template |-> "requirements.txt",
                         data |-> <<training.config.modelType = "neural_network">>])
                   /\ registry' = [v \in DOMAIN registry \cup {u} |->
                                     IF v = u THEN Append(getModels(u), NewModel(training))
                                     ELSE registry[v]]
  /\ UNCHANGED <<contexts, heap, calls, nanoids, files, generations,
                 useCases, deployments>>

\* models.find(m => m.id === modelId): the index of the first match, 0 for none.
FindModel(models, modelId) ==
  IF \E i \in DOMAIN models : models[i].id = modelId
    THEN CHOOSE i \in DOMAIN models :
           /\ models[i].id = modelId
           /\ \A j \in DOMAIN models : models[j].id = modelId => i <= j
    ELSE 0

\* generateDeploymentScript, lines 2285-2355.
DeploymentScript(model) ==
  [template |-> "deploy.py",
   data |-> <<model.modelPath, model.version, model.features, model.id,
              model.algorithm>>]

\* A deployment that falls back to the first model of the use case.
DeployModelFirst(modelId, useCaseId) ==
  /\ LET models == getModels(useCaseId)
         found == IF FindModel(models, modelId) # 0 THEN FindModel(models, modelId)
                  ELSE IF models # <<>> THEN 1 ELSE 0
         d == Len(deployments) + 1
     IN
     IF found = 0
       THEN /\ deployments' = Append(deployments,
                 [modelId |-> modelId, useCaseId |-> useCaseId, pc |-> "threw",
                  error |-> ModelNotFound, script |-> Undefined])
            /\ UNCHANGED registry
       ELSE /\ registry' = [registry EXCEPT ![useCaseId][found].status = "deployed",
                                            ![useCaseId][found].deployedAt = d]
            /\ deployments' = Append(deployments,
                 [modelId |-> modelId, useCaseId |-> useCaseId, pc |-> "writeFile",
                  error |-> "", script |-> DeploymentScript(models[found])])
  /\ UNCHANGED <<contexts, heap, calls, nanoids, files, generations,
                 useCases, modelFiles, trainings>>

\* A deployment that also marks the use cases of that id as deployed.
DeployModelPromoting(modelId, useCaseId) ==
  /\ LET models == getModels(useCaseId)
         found == FindModel(models, modelId)
         d == Len(deployments) + 1
     IN
     IF useCaseId \notin DOMAIN registry \/ found = 0
       THEN /\ deployments' = Append(deployments,
                 [modelId |-> modelId, useCaseId |-> useCaseId, pc |-> "threw",
                  error |-> IF useCaseId \notin DOMAIN registry
                              THEN UseCaseNotFound ELSE ModelNotFound,
                  script |-> Undefined])
            /\ UNCHANGED <<registry, useCases>>
       ELSE /\ registry' = [registry EXCEPT ![useCaseId][found].status = "deployed",
                                            ![useCaseId][found].deployedAt = d]
            /\ useCases' = [i \in DOMAIN useCases |->
                              IF useCases[i].result.id = useCaseId
                                THEN [useCases[i] EXCEPT !.result.status = "deployed"]
                                ELSE useCases[i]]
            /\ deployments' = Append(deployments,
                 [modelId |-> modelId, useCaseId |-> useCaseId, pc |-> "writeFile",
                  error |-> "",
                  script |-> DeploymentScript(
                               [models[found] EXCEPT !.status = "deployed",
                                                     !.deployedAt = d])])
  /\ UNCHANGED <<contexts, heap, calls, nanoids, files, generations,
                 modelFiles, trainings>>

(***************************************************************************)
(* deployModel, lines 2256-2273: look the model up, mark it deployed,      *)
(* render the script and suspend at writing deploy.py.                     *)
(***************************************************************************)
DeployModel(modelId, useCaseId) ==
  /\ LET models == getModels(useCaseId)
         found == FindModel(models, modelId)
         d == Len(deployments) + 1
     IN
     IF useCaseId \notin DOMAIN registry \/ found = 0
       THEN /\ deployments' = Append(deployments,
                 [modelId |-> modelId, useCaseId |-> useCaseId, pc |-> "threw",
                  error |-> IF useCaseId \notin DOMAIN registry
                              THEN UseCaseNotFound ELSE ModelNotFound,
                  script |-> Undefined])
            /\ UNCHANGED registry
       ELSE /\ registry' = [registry EXCEPT ![useCaseId][found].status = "deployed",
                                            ![useCaseId][found].deployedAt = d]
            /\ deployments' = Append(deployments,
                 [modelId |-> modelId, useCaseId |-> useCaseId, pc |-> "writeFile",
                  error |-> "",
                  script |-> DeploymentScript(
                               [models[found] EXCEPT !.status = "deployed",
                                                     !.deployedAt = d])])
  /\ UNCHANGED <<contexts, heap, calls, nanoids, files, generations,
                 useCases, modelFiles, trainings>>

(***************************************************************************)
(* deployModel resumes from writing deploy.py (line 2273) and returns.     *)
(***************************************************************************)
DeployStep(d, ioFails) ==
  /\ deployments[d].pc = "writeFile"
  /\ IF ioFails
       THEN /\ deployments' = [deployments EXCEPT ![d].pc = "threw",
                                                  ![d].error = IOErrorMessage]
            /\ UNCHANGED modelFiles
       ELSE /\ deployments' = [deployments EXCEPT ![d].pc = "returned"]
            /\ modelFiles' = WriteFile(modelFiles,
                                       <<deployments[d].useCaseId, "deploy.py">>,
                                       deployments[d].script)
  /\ UNCHANGED <<contexts, heap, calls, nanoids, files, generations,
                 useCases, registry, trainings>>

\* getDeployedModel, lines 2372-2375: the first model with status deployed.
getDeployedModel(useCaseId) ==
  LET models == getModels(useCaseId)
      deployed == {i \in DOMAIN models : models[i].status = "deployed"}
  IN IF deployed = {} THEN Undefined
     ELSE models[CHOOSE i \in deployed : \A j \in deployed : i <= j]

ConcurrentIntents ==
  {"create_app", "modify_app", "create_ml_usecase", "question", "failure"}
ConcurrentRawSpecs == {RawCRM, RawClientDelta}
ConcurrentRawMLUseCases == {RawChurn}

Next ==
  \/ \E userId \in {"web-user"} : StartSession(userId)
  \/ \E sessionId \in contexts : ClearContext(sessionId)
  \/ \E sessionId \in DOMAIN heap \cup {UnknownSession} :
       Len(calls) < MaxCalls /\ ProcessMessage(sessionId)
  \/ \E c \in CallIds, outcome \in ConcurrentIntents : DetectIntent(c, outcome)
  \/ \E c \in CallIds, failed \in BOOLEAN, text \in HandlerTexts :
       HandlerCompletion(c, failed, text)
  \/ \E c \in CallIds, failed \in BOOLEAN, text \in HandlerTexts :
       GeneralQuery(c, failed, text)
  \/ \E c \in CallIds, outcome \in ExtractOutcomes, raw \in ConcurrentRawSpecs :
       ExtractAppSpec(c, outcome, raw)
  \/ \E c \in CallIds, outcome \in ExtractOutcomes, raw \in ConcurrentRawMLUseCases :
       ExtractMLUseCase(c, outcome, raw)

Spec == Init /\ [][Next]_vars

TypeOK ==
  /\ contexts \subseteq DOMAIN heap
  /\ nanoids \in Nat
  /\ \A c \in CallIds : calls[c].pc \in
       {"detectIntent", "handleCreateApp", "handleModifyApp",
        "handleCreateMLUseCase", "handleGeneralQuery", "extractAppSpec",
        "extractMLUseCase", "returned", "threw"}

\* One session, one message at a time: the next message is sent after the
\* previous call has settled.
Settled == \A c \in CallIds : calls[c].pc \in {"returned", "threw"}

TurnIntents ==
  {"create_app", "modify_app", "add_feature", "create_ml_usecase", "question",
   "other", "failure", "malformed", "no type"}

NextTurns ==
  \/ \E userId \in {"web-user"} : DOMAIN heap = {} /\ StartSession(userId)
  \/ \E sessionId \in DOMAIN heap :
       Len(calls) < MaxTurns /\ Settled /\ ProcessMessage(sessionId)
  \/ \E c \in CallIds, outcome \in TurnIntents : DetectIntent(c, outcome)
  \/ \E c \in CallIds, failed \in BOOLEAN, text \in HandlerTexts :
       HandlerCompletion(c, failed, text)
  \/ \E c \in CallIds, failed \in BOOLEAN, text \in LLMTexts :
       GeneralQuery(c, failed, text)
  \/ \E c \in CallIds, outcome \in ExtractOutcomes, raw \in RawSpecs :
       ExtractAppSpec(c, outcome, raw)
  \/ \E c \in CallIds, outcome \in ExtractOutcomes, raw \in RawMLUseCases :
       ExtractMLUseCase(c, outcome, raw)

SpecTurns == Init /\ [][NextTurns]_vars

(***************************************************************************)
(* Conversation followed by generation: one session, one message at a      *)
(* time, and generation requests for the session.                          *)
(***************************************************************************)
GenIntents == {"create_app", "modify_app"}
GenRawSpecs == {EmptyObject, RawCRM, RawClientDelta, RawLedger}

Quiet == \A g \in GenerationIds : generations[g].status # "running"

NextGen ==
  \/ \E userId \in {"web-user"} : DOMAIN heap = {} /\ StartSession(userId)
  \/ \E sessionId \in DOMAIN heap :
       Len(calls) < MaxGenTurns /\ Settled /\ Quiet /\ ProcessMessage(sessionId)
  \/ \E c \in CallIds, outcome \in GenIntents : DetectIntent(c, outcome)
  \/ \E c \in CallIds, text \in HandlerTexts : HandlerCompletion(c, FALSE, text)
  \/ \E c \in CallIds, raw \in GenRawSpecs : ExtractAppSpec(c, "parsed", raw)
  \/ \E sessionId \in DOMAIN heap :
       Len(generations) < MaxGenerations /\ Settled /\ Quiet /\ GenerateRequest(sessionId)
  \/ \E g \in GenerationIds, ioFails \in BOOLEAN : GenerateStep(g, ioFails)

SpecGen == Init /\ [][NextGen]_vars

(***************************************************************************)
(* The template catalogue: createUseCase on every body of PartialUseCases. *)
(***************************************************************************)
NextCatalogue ==
  \E useCase \in PartialUseCases :
    Len(useCases) < MaxCatalogueCalls /\ CreateUseCase(useCase)

SpecCatalogue == Init /\ [][NextCatalogue]_vars

(***************************************************************************)
(* The model registry: models are trained and deployed for the use case    *)
(* the conversation configured; the calls of trainModel and deployModel    *)
(* interleave at their awaits.                                             *)
(***************************************************************************)
UseCaseIds == {RawChurn.id}
UnknownUseCase == "no-such-use-case"
UnknownModel == "no-such-model"

TrainedModelIds == {trainings[t].modelId : t \in TrainingIds}

NextML ==
  \/ \E useCaseId \in UseCaseIds, config \in {templates.churn_prediction, Undefined} :
       Len(trainings) < MaxTrainings /\ TrainModel(useCaseId, config)
  \/ \E t \in TrainingIds, ioFails \in BOOLEAN : TrainStep(t, ioFails)
  \/ \E modelId \in TrainedModelIds \cup {UnknownModel},
        useCaseId \in UseCaseIds \cup {UnknownUseCase} :
       Len(deployments) < MaxDeployments /\ DeployModel(modelId, useCaseId)
  \/ \E d \in DeploymentIds, ioFails \in BOOLEAN : DeployStep(d, ioFails)

SpecML == Init /\ [][NextML]_vars

(***************************************************************************)
(* The life of a use case: it is created, then models are trained and      *)
(* deployed for its id, one request after the other.                       *)
(***************************************************************************)
LifecycleUseCases ==
  {[id |-> RawChurn.id, category |-> "churn_prediction", status |-> "deployed"]}

CreatedUseCases == {useCases[i].result : i \in DOMAIN useCases}

\* No call of trainModel or deployModel is suspended.
Idle ==
  /\ \A t \in TrainingIds : trainings[t].pc \in {"returned", "threw"}
  /\ \A d \in DeploymentIds : deployments[d].pc \in {"returned", "threw"}

NextLifecycle ==
  \/ \E useCase \in LifecycleUseCases :
       Len(useCases) < MaxCatalogueCalls /\ Idle /\ CreateUseCase(useCase)
  \/ \E useCase \in CreatedUseCases :
       Len(trainings) < MaxTrainings /\ Idle /\ TrainModel(useCase.id, useCase.config)
  \/ \E t \in TrainingIds : TrainStep(t, FALSE)
  \/ \E modelId \in TrainedModelIds, useCase \in CreatedUseCases :
       Len(deployments) < MaxDeployments /\ Idle /\ DeployModel(modelId, useCase.id)
  \/ \E d \in DeploymentIds, ioFails \in BOOLEAN : DeployStep(d, ioFails)

SpecLifecycle == Init /\ [][NextLifecycle]_vars

(***************************************************************************)
(* Properties.                                                             *)
(***************************************************************************)
InFlight(c) == calls[c].pc \notin {"returned", "threw"}

\* The calls that take a step in the current transition.
Stepping(c) == c \notin DOMAIN calls \/ calls'[c] # calls[c]

\* The call finishes a modify_app/add_feature turn with a parsed delta.
ModifyAccepted(c) ==
  /\ c \in DOMAIN calls
  /\ calls[c].pc = "extractAppSpec"
  /\ calls[c].intent \in {"modify_app", "add_feature"}
  /\ calls'[c].pc = "returned"
  /\ calls'[c].updatedSpec # Undefined

\* The call finishes a create_app turn with a parsed specification.
CreateAccepted(c) ==
  /\ c \in DOMAIN calls
  /\ calls[c].pc = "extractAppSpec"
  /\ calls[c].intent = "create_app"
  /\ calls'[c].pc = "returned"
  /\ calls'[c].updatedSpec # Undefined

Collections == {"dataModels", "screens", "workflows", "permissions", "integrations"}

CollectionOf(spec, k) == IF Has(spec, k) THEN spec[k] ELSE <<>>

\* Section 4.2 of the design: replace by id, append the new, keep the rest.
MergeById(old, delta) ==
  LET Replacement(e) ==
        IF \E j \in DOMAIN delta : delta[j].id = e.id
          THEN delta[CHOOSE j \in DOMAIN delta : delta[j].id = e.id]
          ELSE e
      IsNew(e) == \A i \in DOMAIN old : old[i].id # e.id
  IN [i \in DOMAIN old |-> Replacement(old[i])] \o SelectSeq(delta, IsNew)

\* C1: a step of a processMessage call on session A leaves the context of
\* every other session B as it was, and no message sent to A is in B's history.
C1_NoCrossSessionLeakage ==
  /\ [](\A c \in CallIds, B \in DOMAIN heap :
          calls[c].sessionId # B =>
            \A i \in DOMAIN heap[B].history :
              heap[B].history[i].content # calls[c].userMessage)
  /\ [][\A c \in DOMAIN calls' :
          Stepping(c) =>
            \A B \in DOMAIN heap :
              B # calls'[c].sessionId => heap'[B] = heap[B]]_vars

\* C1 witness: a turn on one session has stored a specification while another
\* session has a history of its own.
C1_Witness ==
  \E c \in CallIds, B \in DOMAIN heap :
    /\ calls[c].pc = "returned"
    /\ calls[c].sessionId # B
    /\ calls[c].sessionId \in DOMAIN heap
    /\ heap[calls[c].sessionId].currentSpec # Undefined
    /\ heap[B].history # <<>>
    /\ heap[B].currentSpec = Undefined

\* C2: for one session, at most one processMessage call is between its first
\* step (push of the user message) and its last step.
C2_NoInterleaving ==
  \A c, d \in CallIds :
    (c # d /\ calls[c].sessionId = calls[d].sessionId) =>
      ~(InFlight(c) /\ InFlight(d))

\* C3: on an accepted modify_app/add_feature turn, every top-level collection
\* of the new currentSpec is the merge by id of the old one with the delta.
C3_MergeByEntityId ==
  [][\A c \in CallIds :
       ModifyAccepted(c) =>
         \A k \in Collections :
           CollectionOf(heap'[calls[c].sessionId].currentSpec, k) =
             MergeById(CollectionOf(heap[calls[c].sessionId].currentSpec, k),
                       CollectionOf(calls'[c].updatedSpec, k))]_vars

\* C4: the id of currentSpec changes only by a create_app turn.
C4_SpecIdStable ==
  [][\A s \in DOMAIN heap :
       (heap[s].currentSpec # Undefined /\ ~(\E c \in CallIds : CreateAccepted(c))) =>
         heap'[s].currentSpec.id = heap[s].currentSpec.id]_vars

\* Two extractions returned the same object: the normalised deltas agree on
\* every key but the id that normalisation draws when the object has none.
SameDelta(a, b) ==
  /\ DOMAIN a = DOMAIN b
  /\ \A k \in DOMAIN a \ {"id"} : a[k] = b[k]

UniqueBy(seq, key) ==
  \A i, j \in DOMAIN seq : seq[i][key] = seq[j][key] => i = j

RelationsResolve(spec) ==
  \A i \in DOMAIN DataModelsOf(spec) :
    \A r \in DOMAIN DataModelsOf(spec)[i].relations :
      \E j \in DOMAIN DataModelsOf(spec) :
        DataModelsOf(spec)[j].name = DataModelsOf(spec)[i].relations[r]

\* C6: every stored currentSpec has unique screen paths, unique data model
\* names and relation targets that name a data model of the specification.
C6_StoredSpecIsValid ==
  \A s \in DOMAIN heap :
    heap[s].currentSpec # Undefined =>
      /\ UniqueBy(ScreensOf(heap[s].currentSpec), "path")
      /\ UniqueBy(DataModelsOf(heap[s].currentSpec), "name")
      /\ RelationsResolve(heap[s].currentSpec)

\* C7: in a session without a current specification and app id, a message
\* classified modify_app, add_feature or create_ml_usecase returns a guidance
\* text without artifact, leaves currentSpec, appId and currentMLUseCase unset,
\* and the session stays registered.
C7_NoActiveSpecificationGuidance ==
  [][\A c \in CallIds :
       (/\ calls[c].pc = "detectIntent"
        /\ calls'[c].intent \in {"modify_app", "add_feature", "create_ml_usecase"}
        /\ heap[calls[c].sessionId].currentSpec = Undefined
        /\ heap[calls[c].sessionId].appId = "") =>
         /\ calls'[c].pc = "returned"
         /\ calls'[c].artifacts = <<>>
         /\ calls'[c].response \in {NoActiveAppText, NeedAppContextText}
         /\ heap'[calls[c].sessionId].currentSpec = Undefined
         /\ heap'[calls[c].sessionId].appId = ""
         /\ heap'[calls[c].sessionId].currentMLUseCase = Undefined
         /\ calls[c].sessionId \in contexts']_vars

\* C7 witness: a fresh session answered a modify_app message with the
\* guidance text and then completed a create_app turn.
C7_Witness ==
  /\ Len(calls) >= 2
  /\ calls[1].intent = "modify_app"
  /\ calls[1].pc = "returned"
  /\ calls[1].response = NoActiveAppText
  /\ calls[2].sessionId = calls[1].sessionId
  /\ calls[2].intent = "create_app"
  /\ calls[2].pc = "returned"
  /\ heap[calls[2].sessionId].currentSpec # Undefined

\* C8: unparsable classifier output never makes processMessage raise.
C8_MalformedIntentIsOther ==
  \A c \in CallIds :
    ~(calls[c].pc = "threw" /\ calls[c].error = JSONSyntaxError)

\* C9: a processMessage call on an existing session never raises.
C9_FailuresAreCaught ==
  \A c \in CallIds :
    calls[c].sessionId \in DOMAIN heap => calls[c].pc # "threw"

\* C10: after a failed generation none of the files it wrote remains.
C10_AllOrNothing ==
  \A g \in GenerationIds :
    generations[g].status = "failed" =>
      \A k \in 1..(generations[g].step - 1) :
        \A f \in files : f.path # Plan(generations[g].spec, g)[k].path

\* The generation requests that take a step in the current transition.
GenerationStepping(g) == g \notin DOMAIN generations \/ generations'[g] # generations[g]

\* C11: a step of a generation request, from the request to its success or
\* failure, leaves every session context and the session map as they were.
C11_GenerationLeavesSessions ==
  [][\A g \in DOMAIN generations' :
       GenerationStepping(g) => heap' = heap /\ contexts' = contexts]_vars

\* C11 witness: one generation of the session succeeded, another failed after
\* writing files, and the session still holds a specification.
C11_Witness ==
  \E g, h \in GenerationIds :
    /\ generations[g].status = "done"
    /\ generations[h].status = "failed"
    /\ generations[h].step > 1
    /\ heap[generations[h].sessionId].currentSpec = generations[h].spec

ReadmePath(spec) == <<spec.id, "README.md">>

\* The tree a run leaves when every write of its plan succeeds.
RECURSIVE WriteAll(_, _)
WriteAll(fs, steps) ==
  IF steps = <<>> THEN fs
  ELSE WriteAll(WriteFile(fs, Head(steps).path, Head(steps).content), Tail(steps))

\* Every request for the output directory of g was handed the specification
\* of g and completed.
Regenerated(g) ==
  /\ generations[g].status = "done"
  /\ \A h \in GenerationIds :
       (generations[h].spec # Undefined /\ generations[h].spec.id = generations[g].spec.id)
         => generations[h].spec = generations[g].spec /\ generations[h].status = "done"

\* C12: after a further run on an unchanged specification the output
\* directory holds, README apart, exactly the paths and contents the earlier
\* run produced.
C12_GenerationDeterministic ==
  \A g, h \in GenerationIds :
    (g < h /\ Regenerated(h) /\ generations[g].spec = generations[h].spec) =>
      LET spec == generations[h].spec
          NotReadme(fs) == {f \in fs : f.path # ReadmePath(spec)}
      IN NotReadme({f \in files : f.path[1] = spec.id})
           = NotReadme(WriteAll({}, Plan(spec, g)))

\* C12 witness: two completed runs on the same specification, the README of
\* the second run in place.
C12_Witness ==
  \E g, h \in GenerationIds :
    /\ g < h
    /\ generations[g].status = "done"
    /\ generations[h].status = "done"
    /\ generations[g].spec = generations[h].spec
    /\ Len(DataModelsOf(generations[h].spec)) = 2
    /\ \E f \in files : f.path = ReadmePath(generations[h].spec) /\ f.content.data[4] = h

\* getContext(sessionId): the context, or undefined.
getContext(sessionId) ==
  IF sessionId \in contexts THEN heap[sessionId] ELSE Undefined

\* C16: a session leaves the session map only by clearContext of that very
\* session, a step that touches nothing else; a message for a session that
\* getContext returns is accepted, and a message for any other session id is
\* rejected with 'Session not found'.
C16_SessionAliveUntilCleared ==
  [][/\ \A s \in contexts :
          s \notin contexts' =>
            /\ contexts' = contexts \ {s}
            /\ heap' = heap /\ calls' = calls
     /\ \A c \in DOMAIN calls' \ DOMAIN calls :
          IF getContext(calls'[c].sessionId) = Undefined
            THEN calls'[c].pc = "threw" /\ calls'[c].error = SessionNotFound
            ELSE calls'[c].pc = "detectIntent" /\ calls'[c].error = ""]_vars

\* C16 witness: one session was cleared while another, after a turn that
\* ended in an error, is still returned by getContext and had its next
\* message accepted.
C16_Witness ==
  \E s \in DOMAIN heap \ contexts, t \in contexts, c, d \in CallIds :
    /\ getContext(s) = Undefined
    /\ getContext(t) # Undefined
    /\ c < d
    /\ calls[c].sessionId = t /\ calls[c].pc = "threw" /\ calls[c].error = LLMFailure
    /\ calls[d].sessionId = t /\ calls[d].pc # "threw"

\* The first message the web client shows after startSession resolves.
WelcomeMessage == [role |-> "assistant", content |-> "# Welcome to Synthora!"]

\* C17: the history of every session starts with the welcome message.
C17_HistorySeeded ==
  \A s \in contexts :
    /\ heap[s].history # <<>>
    /\ heap[s].history[1].role = WelcomeMessage.role
    /\ heap[s].history[1].content = WelcomeMessage.content

\* The history of the call's session grows by exactly the given entry.
Appends(c, entry) ==
  LET s == calls'[c].sessionId IN
  /\ Len(heap'[s].history) = Len(heap[s].history) + 1
  /\ SubSeq(heap'[s].history, 1, Len(heap[s].history)) = heap[s].history
  /\ heap'[s].history[Len(heap'[s].history)] = entry

\* C18: an accepted call appends the user message on entry, before the
\* classification; the step that returns appends the assistant entry with
\* the returned response and the returned artifacts, the artifact being the
\* specification or use case already stored in the context; no other step
\* of a call touches the history.
C18_TwoEntriesPerTurn ==
  [][/\ \A c \in DOMAIN calls' \ DOMAIN calls :
          calls'[c].pc # "threw" =>
            /\ calls'[c].pc = "detectIntent"
            /\ Appends(c, [role |-> "user", content |-> calls'[c].userMessage])
     /\ \A c \in CallIds :
          LET s == calls[c].sessionId IN
          IF calls'[c].pc = "returned" /\ calls[c].pc # "returned"
            THEN /\ Appends(c, [role |-> "assistant",
                                content |-> calls'[c].response,
                                artifacts |-> calls'[c].artifacts])
                 /\ \A i \in DOMAIN calls'[c].artifacts :
                      LET a == calls'[c].artifacts[i] IN
                      /\ a.type = "spec" => a.content = heap'[s].currentSpec
                      /\ a.type = "model" => a.content = heap'[s].currentMLUseCase
            ELSE calls'[c] # calls[c] => heap'[s].history = heap[s].history]_vars

\* C18 witness: a turn that returned a specification artifact followed by a
\* turn that returned none, two entries each.
C18_Witness ==
  \E s \in contexts, c, d \in CallIds :
    /\ c < d
    /\ calls[c].pc = "returned" /\ calls[c].artifacts # <<>>
    /\ calls[d].pc = "returned" /\ calls[d].artifacts = <<>>
    /\ Len(heap[s].history) = 4
    /\ heap[s].history[2].artifacts = calls[c].artifacts
    /\ heap[s].history[3].content = calls[d].userMessage

\* C19: from its classification as question or other onwards, a turn keeps
\* currentSpec, appId and currentMLUseCase and returns no artifact.
C19_GeneralQueryKeepsState ==
  [][\A c \in CallIds :
       (calls'[c].intent \in {"question", "other"} /\ calls'[c] # calls[c]) =>
         LET s == calls[c].sessionId IN
         /\ heap'[s].currentSpec = heap[s].currentSpec
         /\ heap'[s].appId = heap[s].appId
         /\ heap'[s].currentMLUseCase = heap[s].currentMLUseCase
         /\ calls'[c].artifacts = <<>>
         /\ calls'[c].pc = "returned" =>
              heap'[s].history[Len(heap'[s].history)].artifacts = <<>>]_vars

\* C19 witness: a question answered in a session that holds a specification.
C19_Witness ==
  \E c \in CallIds :
    /\ calls[c].intent = "question"
    /\ calls[c].pc = "returned"
    /\ calls[c].artifacts = <<>>
    /\ heap[calls[c].sessionId].currentSpec # Undefined
    /\ heap[calls[c].sessionId].currentMLUseCase # Undefined

C13_DefaultConfigByCategory ==
  \A i \in DOMAIN useCases :
    LET request == useCases[i].request
        result == useCases[i].result
    IN
    IF "config" \in DOMAIN request
      THEN result.config = request.config
      ELSE IF "category" \in DOMAIN request /\ request.category \in DOMAIN templates
        THEN /\ result.config = templates[request.category]
             /\ result.config.trainingConfig.trainTestSplit = "0.8"
        ELSE /\ result.config = GenericConfig
             /\ GenericConfig.features = <<>>
             /\ GenericConfig.modelType = "automl"

\* C14: every enumerated category has a template of its own, which
\* createUseCase returns when no config is supplied.
C14_CatalogueTotal ==
  \A i \in DOMAIN useCases :
    LET request == useCases[i].request IN
    ("category" \in DOMAIN request /\ request.category \in MLCategory
       /\ "config" \notin DOMAIN request) =>
      /\ request.category \in DOMAIN templates
      /\ useCases[i].result.config # GenericConfig

\* C15: a deployModel call whose use case id has no registered models, or
\* whose model id is not registered under it, rejects with the not-found
\* error on entry, leaves the registry and the files as they were, and takes
\* no further step.
C15_DeployNotFoundChangesNothing ==
  [][/\ \A d \in DOMAIN deployments' \ DOMAIN deployments :
          LET u == deployments'[d].useCaseId
              m == deployments'[d].modelId
          IN
          IF u \notin DOMAIN registry
            THEN /\ deployments'[d].pc = "threw"
                 /\ deployments'[d].error = UseCaseNotFound
                 /\ registry' = registry /\ modelFiles' = modelFiles
            ELSE (\A i \in DOMAIN registry[u] : registry[u][i].id # m) =>
                   /\ deployments'[d].pc = "threw"
                   /\ deployments'[d].error = ModelNotFound
                   /\ registry' = registry /\ modelFiles' = modelFiles
     /\ \A d \in DeploymentIds :
          deployments[d].pc = "threw" => deployments'[d] = deployments[d]]_vars

\* C15 witness: both rejections happened, the second while a model of the
\* use case was registered; that model is still ready, never deployed, and
\* no deployment script exists.
C15_Witness ==
  \E d, e \in DeploymentIds, u \in DOMAIN registry :
    /\ deployments[d].pc = "threw" /\ deployments[d].error = UseCaseNotFound
    /\ deployments[e].pc = "threw" /\ deployments[e].error = ModelNotFound
    /\ deployments[e].useCaseId = u
    /\ registry[u] # <<>>
    /\ \A i \in DOMAIN registry[u] :
         registry[u][i].status = "ready" /\ registry[u][i].deployedAt = 0
    /\ \A f \in modelFiles : f.path # <<u, "deploy.py">>

\* The collections of a specification whose entities are identified.
IdentifiedCollections == {"dataModels", "screens", "workflows"}

\* C21: every data model, screen and workflow of a stored currentSpec has a
\* non-empty id.
C21_NestedEntitiesHaveIds ==
  \A s \in DOMAIN heap :
    heap[s].currentSpec # Undefined =>
      \A k \in IdentifiedCollections :
        \A i \in DOMAIN CollectionOf(heap[s].currentSpec, k) :
          HasId(CollectionOf(heap[s].currentSpec, k)[i])

\* The files a tree holds directly below one of its directories.
FilesIn(appDir, dir) ==
  {f \in files : /\ Len(f.path) = Len(dir) + 2
                 /\ f.path[1] = appDir
                 /\ SubSeq(f.path, 2, Len(dir) + 1) = dir}

\* C22: the tree of a completed generation holds as many route files as the
\* specification has data models, a model file and a schema file for each,
\* and as many page files as it has screens.
C22_OneFilePerEntity ==
  \A g \in GenerationIds :
    (/\ generations[g].status = "done"
     /\ \A h \in GenerationIds :
          (generations[h].spec # Undefined /\ generations[h].spec.id = generations[g].spec.id)
            => generations[h].spec = generations[g].spec) =>
      LET spec == generations[g].spec IN
      /\ Cardinality(FilesIn(spec.id, <<"backend", "app", "routes">>))
           = Len(DataModelsOf(spec))
      /\ Cardinality(FilesIn(spec.id, <<"backend", "app", "models">>))
           = 2 * Len(DataModelsOf(spec))
      /\ Cardinality(FilesIn(spec.id, <<"frontend", "src", "pages">>))
           = Len(ScreensOf(spec))

\* C30: every stored currentSpec has the keys dataModels and screens.
C30_CollectionsPresent ==
  \A s \in DOMAIN heap :
    heap[s].currentSpec # Undefined =>
      Has(heap[s].currentSpec, "dataModels") /\ Has(heap[s].currentSpec, "screens")

\* C24: appId is set exactly when currentSpec is set, and then it is the id
\* of currentSpec.
C24_AppIdIsSpecId ==
  \A s \in DOMAIN heap :
    /\ heap[s].appId # "" <=> heap[s].currentSpec # Undefined
    /\ heap[s].currentSpec # Undefined => heap[s].appId = heap[s].currentSpec.id

\* No call of the session is suspended.
NoMessageInFlight(s) ==
  \A c \in CallIds : calls[c].sessionId = s => calls[c].pc \in {"returned", "threw"}

\* C25: while no message of a session is in flight its history has even
\* length and alternates user and assistant entries, starting with a user
\* entry.
C25_HistoryAlternates ==
  \A s \in DOMAIN heap :
    NoMessageInFlight(s) =>
      /\ Len(heap[s].history) % 2 = 0
      /\ \A i \in DOMAIN heap[s].history :
           heap[s].history[i].role = IF i % 2 = 1 THEN "user" ELSE "assistant"

\* C29: a stored currentMLUseCase carries the session's current appId.
C29_UseCaseBoundToCurrentApp ==
  \A s \in DOMAIN heap :
    heap[s].currentMLUseCase # Undefined =>
      heap[s].currentMLUseCase.appId = heap[s].appId

\* C26: the k-th registered model of a use case has version k.
C26_VersionsConsecutive ==
  \A u \in DOMAIN registry :
    \A k \in DOMAIN registry[u] : registry[u][k].version = k

\* C27: at most one model of a use case is deployed, and getDeployedModel
\* returns the model deployed last.
C27_SingleDeployedModel ==
  \A u \in DOMAIN registry :
    LET deployed == {i \in DOMAIN registry[u] : registry[u][i].status = "deployed"} IN
    /\ Cardinality(deployed) <= 1
    /\ \A i \in deployed :
         registry[u][i].deployedAt <= getDeployedModel(u).deployedAt

\* C28: a model whose only deployments failed at the write of the script is
\* ready, has no deployedAt, and is not what getDeployedModel returns.
C28_DeployAtomicOnWriteFailure ==
  \A d \in DeploymentIds :
    LET u == deployments[d].useCaseId
        m == deployments[d].modelId
    IN
    (/\ deployments[d].pc = "threw"
     /\ deployments[d].error = IOErrorMessage
     /\ \A e \in DeploymentIds :
          (deployments[e].useCaseId = u /\ deployments[e].modelId = m)
            => deployments[e].pc = "threw") =>
      /\ \A i \in DOMAIN getModels(u) :
           getModels(u)[i].id = m =>
             getModels(u)[i].status = "ready" /\ getModels(u)[i].deployedAt = 0
      /\ getDeployedModel(u) # Undefined => getDeployedModel(u).id # m

\* Section 3 of the design: the edges of the use case lifecycle.
LifecycleEdges ==
  {<<"configuring", "training">>, <<"training", "deployed">>,
   <<"deployed", "failed">>, <<"deployed", "archived">>}

====
